---- MODULE Spec2Model ----
(***************************************************************************)
(* Linear convolution of two real signals (src/src/convolve.c): the direct *)
(* convolver convolve_simd, the single-shot transform convolver            *)
(* convolve_fft_*, the overlap-save convolver convolve_overlap_save_*, and *)
(* the selector / dispatcher convolve_initialize, convolve and             *)
(* convolve_finalize.                                                      *)
(*                                                                         *)
(* Samples.  A float is modelled as an exact number.  Buffers that go      *)
(* through the transform backend hold residues modulo the prime P = 31:    *)
(* the field GF(31^2) = Z_31[i] has an element W of multiplicative order   *)
(* 32 with W * conj(W) = 1, so that a real-input discrete Fourier          *)
(* transform of any power-of-two size up to 32 can be computed exactly,    *)
(* with the Hermitian symmetry the half-spectrum layout (size + 2 floats)  *)
(* relies on.  Every identity of exact arithmetic survives the reduction   *)
(* modulo P, and the inputs are small enough for the exact convolution     *)
(* values to be residues themselves.                                       *)
(***************************************************************************)
EXTENDS Integers, Sequences, FiniteSets, TLC

\* ------------------------------------------------------------------ bounds
\* Largest xLength / hLength handed to convolve_fft_initialize, and to
\* convolve_initialize away from its thresholds.
MaxFftLen == 2
\* Largest xLength handed to convolve_overlap_save_initialize.
MaxXLen == 8
\* Largest hLength handed to convolve_overlap_save_initialize.
MaxHLen == 2
\* Largest xLength / hLength of a convolve_simd call made on its own.
MaxDirectLen == 8
\* The signals of a convolve_simd call made on its own are the ramps
\* k |-> (c * k + 1) % 3 with c in 0..MaxCoef.
MaxCoef == 1
\* Largest number of executes on one handle.
MaxExec == 2
\* Half-width of the windows of lengths tried around the selector's thresholds.
SelWindow == 2

\* --------------------------------------------------------- program constants
\* convolve_initialize: the "long" threshold above which overlap-save is used.
LongThreshold == 200
\* convolve_initialize: the single-shot threshold without NEON.
MediumThreshold == 350
\* convolve_initialize: the single-shot threshold with NEON.
MediumThresholdNeon == 50
\* Vector width, in floats, of the AVX code paths.
AvxWidth == 8
\* Vector width, in floats, of the NEON code paths.
NeonWidth == 4

\* The three builds the preprocessor branches produce.
Builds == {"scalar", "neon", "avx"}

\* FLOAT_STEP: the number of floats one complex_multiply call handles.
FLOAT_STEP(b) == IF b = "avx" THEN AvxWidth ELSE NeonWidth

\* SIMD is defined exactly in the vector builds.
SimdDefined(b) == b # "scalar"

\* ------------------------------------------------------ exact sample field
\* The prime 31: Z_P[i] has P + 1 = 32 elements of norm one, the powers of W.
P == 32 - 1

\* Content of a cell no store has reached since malloc.
Uninit == 0 - 1

FMul(a, b) == (a * b) % P

FNeg(a) == (P - (a % P)) % P

\* 1 / L for the transform sizes 1, 2, 4, 8, 16, 32.
FInv(L) == CHOOSE r \in 0..(P - 1) : (r * L) % P = 1

\* Powers 0..31 of W = 2 + 11 i, in the role of exp(-2 pi i / 32).
Omega32 ==
    << <<1, 0>>, <<2, 11>>, <<7, 13>>, <<26, 10>>, <<4, 27>>, <<21, 5>>,
       <<18, 24>>, <<20, 29>>, <<0, 30>>, <<11, 29>>, <<13, 24>>, <<10, 5>>,
       <<27, 27>>, <<5, 10>>, <<24, 13>>, <<29, 11>>, <<30, 0>>, <<29, 20>>,
       <<24, 18>>, <<5, 21>>, <<27, 4>>, <<10, 26>>, <<13, 7>>, <<11, 2>>,
       <<0, 1>>, <<20, 2>>, <<18, 7>>, <<21, 26>>, <<4, 4>>, <<26, 21>>,
       <<7, 18>>, <<2, 20>> >>

\* W_L ^ e for the primitive L-th root W_L = W ^ (32 / L); e may be negative.
Twiddle(L, e) == Omega32[((((e % L) + L) % L) * (32 \div L)) + 1]

CMul(a, b) ==
    << (a[1] * b[1] + (P - 1) * (a[2] * b[2])) % P,
       (a[1] * b[2] + a[2] * b[1]) % P >>

\* The array with every element computed: a sequence in explicit form.
Array(s) == s \o << >>

RECURSIVE SumSeq(_)
SumSeq(s) == IF s = << >> THEN 0 ELSE Head(s) + SumSeq(Tail(s))

\* Coefficient k of the size-L transform of the real samples sig[1..L].
DftCoef(sig, L, k) ==
    LET re == Array([n \in 1..L |-> sig[n] * Twiddle(L, k * (n - 1))[1]])
        im == Array([n \in 1..L |-> sig[n] * Twiddle(L, k * (n - 1))[2]])
    IN  << SumSeq(re) % P, SumSeq(im) % P >>

\* fftf_calc on a forward real plan of size L bound to buf, in place:
\* reads buf[0 .. L), writes the L/2 + 1 coefficients as (re, im) pairs.
FftForward(buf, L) ==
    LET nc == (L \div 2) + 1
        sig == Array([n \in 1..L |-> buf[n] % P])
        C == Array([k \in 1..nc |-> DftCoef(sig, L, k - 1)])
    IN  Array([j \in 1..Len(buf) |->
                  IF j <= 2 * nc THEN C[((j - 1) \div 2) + 1][((j - 1) % 2) + 1]
                  ELSE buf[j]])

\* fftf_calc on a backward real plan of size L bound to buf, in place and
\* unnormalised: reads the coefficients 0 .. L/2, writes buf[0 .. L).
FftBackward(buf, L) ==
    LET half == L \div 2
        C == Array([k \in 1..(half + 1) |->
                       << buf[2 * k - 1] % P, buf[2 * k] % P >>])
        mid(n) == IF L >= 2
                  THEN (IF n % 2 = 0 THEN C[half + 1][1] ELSE FNeg(C[half + 1][1]))
                  ELSE 0
        pair(n) == Array([k \in 1..(half - 1) |->
                             2 * CMul(C[k + 1], Twiddle(L, 0 - k * n))[1]])
    IN  Array([j \in 1..Len(buf) |->
                  IF j <= L
                  THEN (C[1][1] + mid(j - 1) + SumSeq(pair(j - 1))) % P
                  ELSE buf[j]])

\* ------------------------------------------------------------ array helpers
\* memsetf(buf + at, value, count)
Memsetf(buf, at, value, count) ==
    Array([j \in 1..Len(buf) |->
              IF j > at /\ j <= at + count THEN value ELSE buf[j]])

\* memcpy(buf + at, src, count floats), src given as the sequence copied
Memcpy(buf, at, src) ==
    Array([j \in 1..Len(buf) |->
              IF j > at /\ j <= at + Len(src) THEN src[j - at] ELSE buf[j]])

\* rmemcpyf: the copy with the sample order reversed
Reverse(s) == Array([j \in 1..Len(s) |-> s[Len(s) + 1 - j]])

\* mallocf(n): n cells no store has reached
Mallocf(n) == Array([j \in 1..n |-> Uninit])

\* x[idx] for a C index idx; a read outside [0, Len(x)) yields whatever the
\* memory next to the array holds, g.
ReadAt(x, idx, g) == IF idx >= 0 /\ idx < Len(x) THEN x[idx + 1] ELSE g

\* The count floats starting at C index from.
Slice(x, from, count, g) ==
    Array([j \in 1..count |-> ReadAt(x, from + j - 1, g)])

\* The C indices a read of count floats starting at from touches.
Span(from, count) == from..(from + count - 1)

\* v & ~(w - 1) for a power of two w and v >= 0
MaskLow(v, w) == v - (v % w)

\* -------------------------------------------------- convolve_simd (40-101)
\* int beg = n < (int)xLength ? 0 : n - xLength + 1;
Beg(n, xLength) == IF n < xLength THEN 0 ELSE n - xLength + 1

\* int end = n + 1; if (end > (int)hLength) end = hLength;
End(n, hLength) == IF n + 1 > hLength THEN hLength ELSE n + 1

\* Whether the call runs a vector branch, and its width in floats.
VectorPath(b, simd) == simd # 0 /\ b \in {"avx", "neon"}

VectorWidth(b) == IF b = "avx" THEN AvxWidth ELSE NeonWidth

\* int simdEnd = beg + ((end - beg) & ~7);   (& ~3 with NEON)
SimdEnd(b, beg, end) == beg + MaskLow(end - beg, VectorWidth(b))

\* XLoadStart one float too low: x + n - m - 8 (- 4).
XLoadStartOneLower(b, n, m) == n - m - VectorWidth(b)

\* C index of the first float of the x vector load: x + n - m - 7 (- 3)
XLoadStart(b, n, m) == n - m - (VectorWidth(b) - 1)

\* C index of the first float of the h vector load: h + m
HLoadStart(b, n, m) == m

\* ShuffleX without its second shuffle: the halves swapped (the pairs
\* reversed), the lanes inside them left in load order.
ShuffleXFirstStepOnly(b, v) ==
    IF b = "avx"
    THEN Array([j \in 1..8 |-> v[((j - 1 + 4) % 8) + 1]])
    ELSE Array([j \in 1..4 |-> v[2 * ((j - 1) \div 2) + (1 - ((j - 1) % 2)) + 1]])

\* The register after the lane shuffles that reverse the loaded x vector:
\* AVX   _mm256_permute2f128_ps(v, v, 1), then _mm256_permute_ps(v, 27);
\* NEON  vrev64q_f32(v), then vcombine_f32(vget_high_f32, vget_low_f32).
ShuffleX(b, v) ==
    IF b = "avx"
    THEN LET swapped == Array([j \in 1..8 |-> v[((j - 1 + 4) % 8) + 1]])
         IN  Array([j \in 1..8 |->
                       swapped[4 * ((j - 1) \div 4) + (3 - ((j - 1) % 4)) + 1]])
    ELSE LET rev64 == Array([j \in 1..4 |->
                                v[2 * ((j - 1) \div 2) + (1 - ((j - 1) % 2)) + 1]])
         IN  Array([j \in 1..4 |-> rev64[((j - 1 + 2) % 4) + 1]])

\* The horizontal reduction of the accumulator register:
\* AVX   two _mm256_hadd_ps(a, a), then lane 0 + lane 4;
\* NEON  vpadd_f32(high, low), then lane 0 + lane 1.
ReduceAccum(b, a) ==
    IF b = "avx"
    THEN LET hadd(v) == << v[1] + v[2], v[3] + v[4], v[1] + v[2], v[3] + v[4],
                           v[5] + v[6], v[7] + v[8], v[5] + v[6], v[7] + v[8] >>
             r == hadd(hadd(a))
         IN  r[1] + r[5]
    ELSE LET padd == << a[3] + a[4], a[1] + a[2] >>
         IN  padd[1] + padd[2]

\* The starts m of the vector chunks of output sample n.
ChunkStarts(b, n, xLength, hLength) ==
    LET beg == Beg(n, xLength)
        cnt == (SimdEnd(b, beg, End(n, hLength)) - beg) \div VectorWidth(b)
    IN  Array([t \in 1..cnt |-> beg + (t - 1) * VectorWidth(b)])

\* The scalar loop's m values of output sample n:
\* simdEnd .. end - 1 after a vector loop, beg .. end - 1 otherwise.
ScalarRange(b, simd, n, xLength, hLength) ==
    LET beg == Beg(n, xLength)
        end == End(n, hLength)
        from == IF VectorPath(b, simd) THEN SimdEnd(b, beg, end) ELSE beg
    IN  Array([t \in 1..(end - from) |-> from + t - 1])

\* float sum of output sample n
SampleSum(b, simd, x, h, n, g) ==
    LET W == VectorWidth(b)
        starts == ChunkStarts(b, n, Len(x), Len(h))
        xvec(m) == ShuffleX(b, Slice(x, XLoadStart(b, n, m), W, g))
        hvec(m) == Slice(h, HLoadStart(b, n, m), W, g)
        xvecs == Array([t \in 1..Len(starts) |-> xvec(starts[t])])
        hvecs == Array([t \in 1..Len(starts) |-> hvec(starts[t])])
        accum == Array([k \in 1..W |->
                           SumSeq(Array([t \in 1..Len(starts) |->
                                            xvecs[t][k] * hvecs[t][k]]))])
        ms == ScalarRange(b, simd, n, Len(x), Len(h))
        tail == SumSeq(Array([t \in 1..Len(ms) |->
                                 ReadAt(h, ms[t], g) * ReadAt(x, n - ms[t], g)]))
    IN  IF VectorPath(b, simd) THEN ReduceAccum(b, accum) + tail ELSE tail

\* The C indices of x (of h) the call reads.
SimdXReads(b, simd, xLength, hLength) ==
    UNION { LET starts == ChunkStarts(b, n, xLength, hLength)
                ms == ScalarRange(b, simd, n, xLength, hLength)
            IN  {n - ms[t] : t \in 1..Len(ms)} \cup
                (IF VectorPath(b, simd)
                 THEN UNION { Span(XLoadStart(b, n, starts[t]), VectorWidth(b)) :
                              t \in 1..Len(starts) }
                 ELSE {})
          : n \in 0..(xLength + hLength - 2) }

SimdHReads(b, simd, xLength, hLength) ==
    UNION { LET starts == ChunkStarts(b, n, xLength, hLength)
                ms == ScalarRange(b, simd, n, xLength, hLength)
            IN  {ms[t] : t \in 1..Len(ms)} \cup
                (IF VectorPath(b, simd)
                 THEN UNION { Span(HLoadStart(b, n, starts[t]), VectorWidth(b)) :
                              t \in 1..Len(starts) }
                 ELSE {})
          : n \in 0..(xLength + hLength - 2) }

\* assert(xLength > 0); assert(hLength > 0);
SimdAsserts(xLength, hLength) == xLength > 0 /\ hLength > 0

\* The whole call: the output array, the stores into it in program order
\* (start, count), and the indices read.
ConvolveSimd(b, simd, x, h, g) ==
    LET outLen == Len(x) + Len(h) - 1
    IN  [ result |-> Array([n \in 1..outLen |-> SampleSum(b, simd, x, h, n - 1, g)]),
          writes |-> Array([n \in 1..outLen |-> << n - 1, 1 >>]),
          xReads |-> SimdXReads(b, simd, Len(x), Len(h)),
          hReads |-> SimdHReads(b, simd, Len(x), Len(h)) ]

\* ------------------------------------------------------ transform sizes
\* while (v >>= 1) { log++; }  started with the given log
RECURSIVE ShiftLoop(_, _)
ShiftLoop(v, log) == IF v \div 2 # 0 THEN ShiftLoop(v \div 2, log + 1) ELSE log

RECURSIVE Pow2(_)
Pow2(e) == IF e = 0 THEN 1 ELSE 2 * Pow2(e - 1)

RECURSIVE BitAnd(_, _)
BitAnd(a, b) ==
    IF a = 0 \/ b = 0 THEN 0
    ELSE (a % 2) * (b % 2) + 2 * BitAnd(a \div 2, b \div 2)

\* convolve_overlap_save_initialize: int L = M; int log = 2; ... L = 1 << log
BlockSize(hLength) == Pow2(ShiftLoop(hLength, 2))

\* convolve_fft_initialize: int M = xLength + hLength - 1, rounded up to a
\* power of two when (M & (M - 1)) != 0
TransformSize(xLength, hLength) ==
    LET M == xLength + hLength - 1
    IN  IF M > 0 /\ BitAnd(M, M - 1) # 0 THEN Pow2(ShiftLoop(M, 1)) ELSE M

\* int step = L - (M - 1)
Step(L, hLength) == L - (hLength - 1)

\* -------------------------------------------------------------- resources
\* What the initializers obtain from malloc, mallocf, fftf_init(_batch), in
\* program order, and what the finalizers hand to free and fftf_destroy.
FftAllocs ==
    << "M", "inputs[0]", "inputs[1]", "inputs", "fft_plan", "fft_inverse_plan" >>

\* FftFrees without the release of the length cell.
FftFreesWithoutLengthCell ==
    << "inputs[0]", "inputs[1]", "inputs", "fft_plan", "fft_inverse_plan" >>

FftFrees ==
    << "inputs[0]", "inputs[1]", "inputs", "M", "fft_plan", "fft_inverse_plan" >>

OsAllocs ==
    << "H", "L", "fft_boiler_plate", "fft_plan", "fft_inverse_plan" >>

OsFrees ==
    << "fft_boiler_plate", "fft_plan", "fft_inverse_plan", "L", "H" >>

Resources ==
    { "M", "inputs[0]", "inputs[1]", "inputs", "H", "L", "fft_boiler_plate",
      "fft_plan", "fft_inverse_plan" }

Count(seq, r) == Cardinality({ j \in 1..Len(seq) : seq[j] = r })

\* The per-resource counts after the calls listed in seq.
Bump(counts, seq) == [r \in Resources |-> counts[r] + Count(seq, r)]

NoCounts == [r \in Resources |-> 0]

\* ---------------------------------------------------------------- handles
NoHandle ==
    [ algorithm |-> "None", x_length |-> 0, h_length |-> 0, reverse |-> 0,
      size |-> 0, A |-> << >>, B |-> << >> ]

\* assert(hLength > 0); assert(xLength > 0);
FftInitAsserts(xLength, hLength) == hLength > 0 /\ xLength > 0

\* convolve_fft_initialize past its assertions.  A is inputs[0] (X), B is
\* inputs[1] (H), size is *handle.M.
FftHandle(xLength, hLength) ==
    LET M == TransformSize(xLength, hLength)
    IN  [ algorithm |-> "FFT", x_length |-> xLength, h_length |-> hLength,
          reverse |-> 0, size |-> M,
          A |-> Memsetf(Mallocf(M + 2), xLength, 0, M + 2 - xLength),
          B |-> Memsetf(Mallocf(M + 2), hLength, 0, M + 2 - hLength) ]

\* assert(hLength < xLength / 2); assert(xLength > 0); assert(hLength > 0);
OsInitAsserts(xLength, hLength) ==
    hLength < xLength \div 2 /\ xLength > 0 /\ hLength > 0

\* convolve_overlap_save_initialize past its assertions.  A is
\* fft_boiler_plate, B is H, size is *handle.L.
OsHandle(xLength, hLength) ==
    LET L == BlockSize(hLength)
    IN  [ algorithm |-> "OverlapSave", x_length |-> xLength,
          h_length |-> hLength, reverse |-> 0, size |-> L,
          A |-> Mallocf(L + 2),
          B |-> Memsetf(Mallocf(L + 2), hLength, 0, L - hLength) ]

\* convolve_initialize in the brute-force branches: the lengths and the tag.
DirectHandle(xLength, hLength) ==
    [ algorithm |-> "BruteForce", x_length |-> xLength, h_length |-> hLength,
      reverse |-> 0, size |-> 0, A |-> << >>, B |-> << >> ]

\* The threshold of the "comparable lengths" branch: 50 with NEON, else 350.
MediumOf(b) == IF b = "neon" THEN MediumThresholdNeon ELSE MediumThreshold

\* convolve_initialize: the algorithm the size tests pick.
SelectAlgorithm(b, xLength, hLength) ==
    IF xLength > hLength * 2
    THEN (IF xLength > LongThreshold THEN "OverlapSave" ELSE "BruteForce")
    ELSE (IF xLength > MediumOf(b) THEN "FFT" ELSE "BruteForce")

\* Whether every assertion on the way through convolve_initialize holds.
SelectAsserts(b, xLength, hLength) ==
    CASE SelectAlgorithm(b, xLength, hLength) = "OverlapSave" ->
             OsInitAsserts(xLength, hLength)
      [] SelectAlgorithm(b, xLength, hLength) = "FFT" ->
             FftInitAsserts(xLength, hLength)
      [] OTHER -> TRUE

\* ----------------------------------------- pointwise spectral multiply
\* complex_multiply_na(A + p, B + p, A + p): one (re, im) pair, in place.
\* A cell outside the buffer reads as g, and a store outside it is dropped.
MulPair(A, B, p, g) ==
    LET r == CMul(<< ReadAt(A, p, g), ReadAt(A, p + 1, g) >>,
                  << ReadAt(B, p, g), ReadAt(B, p + 1, g) >>)
    IN  Array([j \in 1..Len(A) |->
                  IF j = p + 1 THEN r[1] ELSE IF j = p + 2 THEN r[2] ELSE A[j]])

RECURSIVE MulPairs(_, _, _, _)
MulPairs(A, B, ops, g) ==
    IF ops = << >> THEN A ELSE MulPairs(MulPair(A, B, Head(ops), g), B, Tail(ops), g)

\* #ifdef SIMD  for (i = 0; i < size; i += FLOAT_STEP): the chunk starts
VectorChunks(b, size) ==
    IF SimdDefined(b)
    THEN Array([t \in 1..((size + FLOAT_STEP(b) - 1) \div FLOAT_STEP(b)) |->
                   (t - 1) * FLOAT_STEP(b)])
    ELSE << >>

\* int istart = 0;  #ifdef SIMD  istart = size;
ScalarStart(b, size) == IF SimdDefined(b) THEN size ELSE 0

\* for (i = istart; i < size + 2; i += 2): the pair starts
ScalarPairs(b, size) ==
    Array([t \in 1..((size + 2 - ScalarStart(b, size) + 1) \div 2) |->
              ScalarStart(b, size) + 2 * (t - 1)])

\* The buffer indices the two loops touch.
SpectralTouched(b, size) ==
    UNION { Span(VectorChunks(b, size)[t], FLOAT_STEP(b)) :
            t \in 1..Len(VectorChunks(b, size)) }
    \cup UNION { Span(ScalarPairs(b, size)[t], 2) :
                 t \in 1..Len(ScalarPairs(b, size)) }

\* A := A * B over the half spectrum: the vector loop, then the scalar loop.
SpectralMultiply(b, A, B, size, g) ==
    LET chunks == VectorChunks(b, size)
        perChunk == FLOAT_STEP(b) \div 2
        vec == Array([t \in 1..(Len(chunks) * perChunk) |->
                         chunks[((t - 1) \div perChunk) + 1]
                         + 2 * ((t - 1) % perChunk)])
    IN  MulPairs(A, B, vec \o ScalarPairs(b, size), g)

\* real_multiply_scalar(src, count, 1.0f / size, dst): the count scaled samples
Normalized(src, count, size) ==
    Array([j \in 1..count |-> FMul(src[j], FInv(size))])

\* The kernel as copied into a buffer: rmemcpyf when handle.reverse is set.
KernelCopy(hd, h) == IF hd.reverse # 0 THEN Reverse(h) ELSE h

\* ------------------------------------------------- convolve_fft (289-326)
\* The buffers as the forward transform finds them.
FftLoaded(hd, x, h) ==
    [ A |-> Memcpy(hd.A, 0, x), B |-> Memcpy(hd.B, 0, KernelCopy(hd, h)) ]

ConvolveFft(hd, b, x, h, g) ==
    LET M == hd.size
        outLen == hd.x_length + hd.h_length - 1
        in == FftLoaded(hd, x, h)
        X2 == FftForward(in.A, M)
        H2 == FftForward(in.B, M)
        X3 == SpectralMultiply(b, X2, H2, M, g)
        X4 == FftBackward(X3, M)
    IN  [ A |-> X4, B |-> H2,
          result |-> Normalized(X4, outLen, M),
          writes |-> << << 0, outLen >> >>,
          fwd |-> << [i |-> 0, a |-> SubSeq(in.A, 1, M), b |-> SubSeq(in.B, 1, M)] >>,
          touched |-> SpectralTouched(b, M),
          xReads |-> Span(0, hd.x_length),
          hReads |-> Span(0, hd.h_length) ]

\* ---------------------------------------- convolve_overlap_save (156-229)
\* The scratch buffer with the padded kernel (167-172).
OsKernelLoaded(hd, h) ==
    Memsetf(Memcpy(hd.A, 0, KernelCopy(hd, h)), hd.h_length, 0,
            hd.size - hd.h_length)

\* The first C index of x and the number of floats block i copies (185-197).
OsReadStart(hd, i) == IF i > 0 THEN i - (hd.h_length - 1) ELSE 0

OsReadCount(hd, i) ==
    LET step == Step(hd.size, hd.h_length)
    IN  IF i > 0
        THEN (IF i + step <= hd.x_length THEN hd.size
              ELSE hd.x_length - i + hd.h_length - 1)
        ELSE step

\* The scratch buffer of block i as the forward transform finds it (185-197).
OsFill(hd, x, i, A, g) ==
    LET M == hd.h_length
        L == hd.size
        src == Slice(x, OsReadStart(hd, i), OsReadCount(hd, i), g)
    IN  IF i > 0
        THEN (IF i + Step(L, M) <= hd.x_length
              THEN Memcpy(A, 0, src)
              ELSE Memsetf(Memcpy(A, 0, src), Len(src), 0, L - Len(src)))
        ELSE Memcpy(Memsetf(A, 0, 0, M - 1), M - 1, src)

\* OsCopyLen without the truncation of the last block.
OsCopyLenUntruncated(hd, i) == Step(hd.size, hd.h_length)

\* The number of samples block i copies into result + i (221-227).
OsCopyLen(hd, i) ==
    LET step == Step(hd.size, hd.h_length)
    IN  IF i + step < hd.x_length + hd.h_length THEN step
        ELSE hd.x_length + hd.h_length - 1 - i

\* for (i = 0; i < x_length + M - 1; i += step)
OsLoopTest(hd, i) == i < hd.x_length + hd.h_length - 1

\* The loop from block i on; acc carries the scratch buffer, the output
\* array and what the blocks so far did.
RECURSIVE OsLoop(_, _, _, _, _, _, _)
OsLoop(hd, b, x, H, i, acc, g) ==
    IF ~OsLoopTest(hd, i) THEN acc
    ELSE LET M == hd.h_length
             L == hd.size
             step == Step(L, M)
             filled == OsFill(hd, x, i, acc.A, g)
             X3 == SpectralMultiply(b, FftForward(filled, L), H, L, g)
             X4 == FftBackward(X3, L)
             X5 == Memcpy(X4, M - 1, Normalized(Slice(X4, M - 1, step, g), step, L))
             len == OsCopyLen(hd, i)
         IN  OsLoop(hd, b, x, H, i + step,
                    [ A |-> X5,
                      result |-> Memcpy(acc.result, i, Slice(X5, M - 1, len, g)),
                      writes |-> Append(acc.writes, << i, len >>),
                      fwd |-> Append(acc.fwd,
                                     [i |-> i, a |-> SubSeq(filled, 1, L), b |-> << >>]),
                      xReads |-> acc.xReads \cup
                                 Span(OsReadStart(hd, i), OsReadCount(hd, i)) ],
                    g)

ConvolveOverlapSave(hd, b, x, h, g) ==
    LET L == hd.size
        outLen == hd.x_length + hd.h_length - 1
        H == FftForward(OsKernelLoaded(hd, h), L)
        done == OsLoop(hd, b, x, H, 0,
                       [ A |-> H, result |-> Mallocf(outLen), writes |-> << >>,
                         fwd |-> << >>, xReads |-> {} ], g)
    IN  [ A |-> done.A, B |-> H, result |-> done.result, writes |-> done.writes,
          fwd |-> done.fwd, touched |-> SpectralTouched(b, L),
          xReads |-> done.xReads, hReads |-> Span(0, hd.h_length) ]

\* ------------------------------------------------------------------ state
VARIABLES
    build,      \* which preprocessor branches were compiled
    phase,      \* "none", "ready", "called", "finalized" or "aborted"
    origin,     \* the function that made the handle, or was called without one
    abortedIn,  \* the function whose assertion failed, "" when none did
    handle,     \* the handle's fields; A and B are its two float buffers
    allocated,  \* per resource, how often it was obtained
    released,   \* per resource, how often it was released
    x,          \* the signal of the latest execute
    h,          \* the kernel of the latest execute
    simd,       \* the simd argument of the latest convolve_simd call
    result,     \* the output array after the latest execute
    writes,     \* its stores into the output array: << start, count >>, in order
    fwd,        \* the buffers as each forward transform of signal data found them
    touched,    \* the buffer indices its spectral multiply touched
    xReads,     \* the C indices of x it read
    hReads,     \* the C indices of h it read
    nexec       \* the number of executes on the handle so far

vars ==
    << build, phase, origin, abortedIn, handle, allocated, released, x, h, simd,
       result, writes, fwd, touched, xReads, hReads, nexec >>

\* The documented example x = [1, 2, 3], h = [0, 1, 0.5], the kernel and the
\* output of which are written in units of 1/2.
ExampleX == << 1, 2, 3 >>

ExampleH == << 0, 2, 1 >>

ExampleOut == << 0, 2, 5, 8, 3 >>

\* The ramp k |-> (c * k + 1) % 3 of the given length.
Ramp(len, c) == Array([k \in 1..len |-> (c * (k - 1) + 1) % 3])

\* The signals of a given length handed to convolve_simd called on its own.
Signals(len) ==
    { Ramp(len, c) : c \in 0..MaxCoef }
    \cup (IF len = 3 THEN {ExampleX, ExampleH} ELSE {})

\* The signals of a given length handed to an execute on a handle: all ones,
\* and 1, 2, 0, 1, 2, 0, ...
HandleSignals(len) == { Ramp(len, 0), Ramp(len, 1) }

\* What a read outside an array may find.
Garbage == {0, 5}

\* The lengths tried around the selector's thresholds, and the kernel
\* lengths tried around half of a signal length.
SelXLengths ==
    (0..SelWindow)
    \cup ((LongThreshold - SelWindow)..(LongThreshold + SelWindow))
    \cup ((MediumThreshold - SelWindow)..(MediumThreshold + SelWindow))
    \cup ((MediumThresholdNeon - SelWindow)..(MediumThresholdNeon + SelWindow))

SelHLengths(xLength) ==
    (0..SelWindow)
    \cup { m \in ((xLength \div 2) - SelWindow)..((xLength \div 2) + SelWindow) :
           m >= 0 }

Init ==
    /\ build \in Builds
    /\ phase = "none"
    /\ origin = ""
    /\ abortedIn = ""
    /\ handle = NoHandle
    /\ allocated = NoCounts
    /\ released = NoCounts
    /\ x = << >>
    /\ h = << >>
    /\ simd = 0
    /\ result = << >>
    /\ writes = << >>
    /\ fwd = << >>
    /\ touched = {}
    /\ xReads = {}
    /\ hReads = {}
    /\ nexec = 0

\* A failed assertion of function fn: the process aborts.
Abort(fn) ==
    /\ phase' = "aborted"
    /\ abortedIn' = fn

\* convolve_initialize(xLength, hLength)  (328-366)
ConvolveInitialize(xLength, hLength) ==
    /\ phase = "none"
    /\ origin' = "convolve_initialize"
    /\ LET alg == SelectAlgorithm(build, xLength, hLength)
       IN  IF SelectAsserts(build, xLength, hLength)
           THEN /\ phase' = "ready"
                /\ abortedIn' = abortedIn
                /\ handle' = CASE alg = "FFT" -> FftHandle(xLength, hLength)
                               [] alg = "OverlapSave" -> OsHandle(xLength, hLength)
                               [] OTHER -> DirectHandle(xLength, hLength)
                /\ allocated' = CASE alg = "FFT" -> Bump(allocated, FftAllocs)
                                  [] alg = "OverlapSave" -> Bump(allocated, OsAllocs)
                                  [] OTHER -> allocated
           ELSE /\ Abort("convolve_initialize")
                /\ handle' = [NoHandle EXCEPT !.algorithm = alg,
                                              !.x_length = xLength,
                                              !.h_length = hLength]
                /\ allocated' = allocated
    /\ UNCHANGED << build, released, x, h, simd, result, writes, fwd, touched,
                    xReads, hReads, nexec >>

\* convolve_fft_initialize(xLength, hLength)  (231-278)
ConvolveFftInitialize(xLength, hLength) ==
    /\ phase = "none"
    /\ origin' = "convolve_fft_initialize"
    /\ IF FftInitAsserts(xLength, hLength)
       THEN /\ phase' = "ready"
            /\ abortedIn' = abortedIn
            /\ handle' = FftHandle(xLength, hLength)
            /\ allocated' = Bump(allocated, FftAllocs)
       ELSE /\ Abort("convolve_fft_initialize")
            /\ handle' = [NoHandle EXCEPT !.x_length = xLength,
                                          !.h_length = hLength]
            /\ allocated' = allocated
    /\ UNCHANGED << build, released, x, h, simd, result, writes, fwd, touched,
                    xReads, hReads, nexec >>

\* convolve_overlap_save_initialize(xLength, hLength)  (103-146)
ConvolveOverlapSaveInitialize(xLength, hLength) ==
    /\ phase = "none"
    /\ origin' = "convolve_overlap_save_initialize"
    /\ IF OsInitAsserts(xLength, hLength)
       THEN /\ phase' = "ready"
            /\ abortedIn' = abortedIn
            /\ handle' = OsHandle(xLength, hLength)
            /\ allocated' = Bump(allocated, OsAllocs)
       ELSE /\ Abort("convolve_overlap_save_initialize")
            /\ handle' = [NoHandle EXCEPT !.x_length = xLength,
                                          !.h_length = hLength]
            /\ allocated' = allocated
    /\ UNCHANGED << build, released, x, h, simd, result, writes, fwd, touched,
                    xReads, hReads, nexec >>

\* What one execute leaves behind, r being the record the convolver returns.
Executed(xv, hv, r) ==
    /\ x' = xv
    /\ h' = hv
    /\ result' = r.result
    /\ writes' = r.writes
    /\ xReads' = r.xReads
    /\ hReads' = r.hReads

\* convolve(handle, x, h, result)  (381-395), with arrays of the recorded
\* lengths
Convolve(xv, hv, g) ==
    /\ phase = "ready"
    /\ nexec < MaxExec
    /\ Len(xv) = handle.x_length
    /\ Len(hv) = handle.h_length
    /\ CASE handle.algorithm = "FFT" ->
              LET r == ConvolveFft(handle, build, xv, hv, g)
              IN  /\ Executed(xv, hv, r)
                  /\ handle' = [handle EXCEPT !.A = r.A, !.B = r.B]
                  /\ fwd' = r.fwd
                  /\ touched' = r.touched
                  /\ simd' = simd
                  /\ nexec' = nexec + 1
                  /\ UNCHANGED << phase, abortedIn >>
         [] handle.algorithm = "OverlapSave" ->
              LET r == ConvolveOverlapSave(handle, build, xv, hv, g)
              IN  /\ Executed(xv, hv, r)
                  /\ handle' = [handle EXCEPT !.A = r.A, !.B = r.B]
                  /\ fwd' = r.fwd
                  /\ touched' = r.touched
                  /\ simd' = simd
                  /\ nexec' = nexec + 1
                  /\ UNCHANGED << phase, abortedIn >>
         [] OTHER ->
              IF SimdAsserts(handle.x_length, handle.h_length)
              THEN LET r == ConvolveSimd(build, 1, xv, hv, g)
                   IN  /\ Executed(xv, hv, r)
                       /\ simd' = 1
                       /\ nexec' = nexec + 1
                       /\ UNCHANGED << phase, abortedIn, handle, fwd, touched >>
              ELSE /\ Abort("convolve_simd")
                   /\ UNCHANGED << handle, x, h, simd, result, writes, fwd,
                                   touched, xReads, hReads, nexec >>
    /\ UNCHANGED << build, origin, allocated, released >>

\* convolve_simd(simd, x, xLength, h, hLength, result) called on its own
\* (40-101)
ConvolveSimdCall(flag, xv, hv, g) ==
    /\ phase = "none"
    /\ origin' = "convolve_simd"
    /\ simd' = flag
    /\ handle' = [NoHandle EXCEPT !.x_length = Len(xv), !.h_length = Len(hv)]
    /\ IF SimdAsserts(Len(xv), Len(hv))
       THEN /\ Executed(xv, hv, ConvolveSimd(build, flag, xv, hv, g))
            /\ phase' = "called"
            /\ nexec' = nexec + 1
            /\ abortedIn' = abortedIn
       ELSE /\ Abort("convolve_simd")
            /\ UNCHANGED << x, h, result, writes, xReads, hReads, nexec >>
    /\ UNCHANGED << build, allocated, released, fwd, touched >>

\* convolve_finalize(handle)  (368-379)
ConvolveFinalize ==
    /\ phase = "ready"
    /\ phase' = "finalized"
    /\ released' = CASE handle.algorithm = "FFT" -> Bump(released, FftFrees)
                     [] handle.algorithm = "OverlapSave" -> Bump(released, OsFrees)
                     [] OTHER -> released
    /\ UNCHANGED << build, origin, abortedIn, handle, allocated, x, h, simd,
                    result, writes, fwd, touched, xReads, hReads, nexec >>

Next ==
    \/ \E xLength \in 0..MaxFftLen, hLength \in 0..MaxFftLen :
           ConvolveInitialize(xLength, hLength)
    \/ \E xLength \in 0..MaxFftLen, hLength \in 0..MaxFftLen :
           ConvolveFftInitialize(xLength, hLength)
    \/ \E xLength \in 0..MaxXLen, hLength \in 0..MaxHLen :
           ConvolveOverlapSaveInitialize(xLength, hLength)
    \/ \E xv \in HandleSignals(handle.x_length),
          hv \in HandleSignals(handle.h_length), g \in Garbage :
           Convolve(xv, hv, g)
    \/ \E xLength \in 0..MaxDirectLen, hLength \in 0..MaxDirectLen,
          flag \in {0, 1}, g \in Garbage :
           \E xv \in Signals(xLength), hv \in Signals(hLength) :
               ConvolveSimdCall(flag, xv, hv, g)
    \/ ConvolveFinalize

Spec == Init /\ [][Next]_vars

\* The selector around its thresholds: convolve_initialize on lengths near
\* 0, 50, 200 and 350 with kernels near half the signal, then finalize.
NextSel ==
    \/ \E xLength \in SelXLengths :
           \E hLength \in SelHLengths(xLength) :
               ConvolveInitialize(xLength, hLength)
    \/ ConvolveFinalize

SpecSel == Init /\ [][NextSel]_vars

\* ================================================================ claims
\* The direct-convolution value of output sample n, as the contract writes
\* it: the sum over m in [max(0, n - N + 1), min(n, M - 1)] of h[m] * x[n - m].
DirectSum(xv, hv, n) ==
    LET lo == IF n - Len(xv) + 1 > 0 THEN n - Len(xv) + 1 ELSE 0
        hi == IF n < Len(hv) - 1 THEN n ELSE Len(hv) - 1
    IN  SumSeq(Array([t \in 1..(hi - lo + 1) |->
                         hv[lo + t] * xv[n - (lo + t - 1) + 1]]))

OutLen == handle.x_length + handle.h_length - 1

\* An execute has completed on a handle (or convolve_simd on its own).
HasExecuted == nexec >= 1 /\ phase \in {"ready", "called", "finalized"}

IsDirect == handle.algorithm \in {"BruteForce", "None"}

\* The handle as its initializer returns it for the recorded lengths.
FreshHandle ==
    CASE handle.algorithm = "FFT" -> FftHandle(handle.x_length, handle.h_length)
      [] handle.algorithm = "OverlapSave" ->
             OsHandle(handle.x_length, handle.h_length)
      [] OTHER -> DirectHandle(handle.x_length, handle.h_length)

\* The output a fresh handle produces for the latest (x, h).
FreshResult(g) ==
    CASE handle.algorithm = "FFT" -> ConvolveFft(FreshHandle, build, x, h, g).result
      [] handle.algorithm = "OverlapSave" ->
             ConvolveOverlapSave(FreshHandle, build, x, h, g).result
      [] OTHER -> ConvolveSimd(build, 1, x, h, g).result

\* s followed by zeros up to length n.
ZeroPadded(s, n) == Array([j \in 1..n |-> IF j <= Len(s) THEN s[j] ELSE 0])

\* C1: on any initialized handle, the output of every execute equals the
\* output a freshly initialized handle of the same lengths produces for the
\* same (x, h); for a single-shot handle the forward transform of every
\* execute finds x followed by zeros in buffer A and h followed by zeros in
\* buffer B.
C1_ExecuteIndependentOfHistory ==
    (HasExecuted /\ handle.algorithm # "None") =>
        /\ \E g \in Garbage : result = FreshResult(g)
        /\ handle.algorithm = "FFT" =>
               /\ fwd[1].a = ZeroPadded(x, handle.size)
               /\ fwd[1].b = ZeroPadded(h, handle.size)

\* C2: for every N, M with 0 < M < N / 2, overlap-save produces the
\* direct-convolution value at every output index n in [0, N + M - 1).
C2_OverlapSaveMatchesDirect ==
    (HasExecuted /\ handle.algorithm = "OverlapSave") =>
        \A n \in 0..(OutLen - 1) : result[n + 1] = DirectSum(x, h, n) % P

\* C3: for xLength, hLength > 0 with xLength > 2 * hLength and xLength above
\* the long threshold, convolve_initialize returns an OverlapSave handle
\* without a precondition failure.
C3_SelectorMeetsOverlapSavePrecondition ==
    ( /\ origin = "convolve_initialize"
      /\ handle.x_length > 0
      /\ handle.h_length > 0
      /\ handle.x_length > 2 * handle.h_length
      /\ handle.x_length > LongThreshold ) =>
        /\ abortedIn = ""
        /\ phase \in {"ready", "finalized"}
        /\ handle.algorithm = "OverlapSave"

\* C4: convolve_initialize fails with a precondition violation whenever
\* xLength = 0 or hLength = 0, so that no execute on a handle it returned
\* fails for a length reason.
C4_InitializeRejectsZeroLength ==
    origin = "convolve_initialize" =>
        /\ (handle.x_length = 0 \/ handle.h_length = 0) =>
               abortedIn = "convolve_initialize"
        /\ abortedIn # "convolve_simd"

\* The output indices store k covers.
WriteSpan(k) == Span(writes[k][1], writes[k][2])

\* C5: for N, M > 0 and every algorithm, one execute writes exactly the output
\* indices [0, N + M - 1): no store reaches outside that range, the stores
\* (the blocks of overlap-save) are pairwise disjoint, and their union is the
\* whole range.
C5_WritesExactlyTheOutput ==
    HasExecuted =>
        /\ \A k \in 1..Len(writes) :
               /\ writes[k][2] >= 1
               /\ WriteSpan(k) \subseteq 0..(OutLen - 1)
        /\ \A k \in 1..Len(writes) : \A l \in 1..Len(writes) :
               k # l => WriteSpan(k) \cap WriteSpan(l) = {}
        /\ UNION { WriteSpan(k) : k \in 1..Len(writes) } = 0..(OutLen - 1)
        /\ Len(result) = OutLen

\* An overlap-save execute of two blocks or more on a signal one sample
\* longer than a multiple of step.
C5_Witness ==
    /\ HasExecuted
    /\ handle.algorithm = "OverlapSave"
    /\ Len(writes) >= 2
    /\ handle.x_length % Step(handle.size, handle.h_length) = 1

\* C6: convolve_simd writes out[n] = sum over m in [max(0, n - N + 1),
\* min(n, M - 1)] of h[m] * x[n - m] for every n in [0, N + M - 1); the
\* vector path gives the same output as the scalar path (simd = 0); and
\* x = [1, 2, 3], h = [0, 1, 0.5] gives [0, 1, 2.5, 4, 1.5].
C6_DirectConvolution ==
    (HasExecuted /\ IsDirect) =>
        /\ Len(result) = Len(x) + Len(h) - 1
        /\ \A n \in 0..(Len(result) - 1) : result[n + 1] = DirectSum(x, h, n)
        /\ \E g \in Garbage : result = ConvolveSimd(build, 0, x, h, g).result
        /\ (x = ExampleX /\ h = ExampleH) => result = ExampleOut

\* A vector-path call in which some output sample took a full AVX chunk and
\* another a scalar remainder.
C6_Witness ==
    /\ HasExecuted
    /\ IsDirect
    /\ build = "avx"
    /\ simd = 1
    /\ \E n \in 0..(Len(result) - 1) :
           Len(ChunkStarts(build, n, Len(x), Len(h))) >= 1
    /\ \E n \in 0..(Len(result) - 1) :
           Len(ScalarRange(build, simd, n, Len(x), Len(h))) >= 1

\* The resources a handle of the given algorithm owns: its float buffers, its
\* length cell, its transform plans (and the single-shot handle's array of
\* buffer pointers).
Owned(alg) ==
    CASE alg = "FFT" ->
             { "inputs[0]", "inputs[1]", "inputs", "M", "fft_plan",
               "fft_inverse_plan" }
      [] alg = "OverlapSave" ->
             { "fft_boiler_plate", "H", "L", "fft_plan", "fft_inverse_plan" }
      [] OTHER -> {}

\* C7: initialize obtains each resource the handle owns once, execute obtains
\* and releases nothing, and finalize releases each of them exactly once; a
\* Direct handle owns nothing and its finalize releases nothing.
C7_ResourcesReleasedOnce ==
    /\ phase \in {"ready", "finalized"} =>
           \A r \in Resources :
               allocated[r] = (IF r \in Owned(handle.algorithm) THEN 1 ELSE 0)
    /\ phase = "ready" => released = NoCounts
    /\ phase = "finalized" => released = allocated

\* A single-shot handle finalized after an execute.
C7_Witness ==
    /\ phase = "finalized"
    /\ handle.algorithm = "FFT"
    /\ nexec >= 1
    /\ released["M"] = 1

\* The scratch buffer block i should be transformed from: the M - 1 samples
\* of x before i, the samples of x from i on, zeros where x has none.
ExpectedScratch(i) ==
    Array([j \in 1..handle.size |->
              LET idx == i - (handle.h_length - 1) + (j - 1)
              IN  IF idx >= 0 /\ idx < handle.x_length THEN x[idx + 1] ELSE 0])

\* C8: in overlap-save, every block (the first included) transforms the
\* M - 1 samples of x preceding i, then min(step, N - i) fresh samples, then
\* zeros up to L, and no block reads x outside [0, N).
C8_OverlapSaveBlockFill ==
    (HasExecuted /\ handle.algorithm = "OverlapSave") =>
        /\ xReads \subseteq 0..(handle.x_length - 1)
        /\ \A k \in 1..Len(fwd) : fwd[k].a = ExpectedScratch(fwd[k].i)

\* C9: every element the pointwise spectral multiply touches lies inside the
\* buffer of size + 2 floats, for every transform size of the initializers.
C9_SpectralMultiplyInBounds ==
    (HasExecuted /\ handle.algorithm \in {"FFT", "OverlapSave"}) =>
        touched \subseteq 0..(handle.size + 1)

\* C10: in convolve_simd every access is in range: the scalar ones and every
\* vector load read h within [0, M) and x within [0, N).
C10_DirectAccessesInRange ==
    (HasExecuted /\ IsDirect) =>
        /\ xReads \subseteq 0..(Len(x) - 1)
        /\ hReads \subseteq 0..(Len(h) - 1)

\* A vector-path call with at least one AVX chunk that read all of x and h.
C10_Witness ==
    /\ HasExecuted
    /\ IsDirect
    /\ build = "avx"
    /\ simd = 1
    /\ Len(x) >= AvxWidth
    /\ Len(h) >= AvxWidth
    /\ xReads = 0..(Len(x) - 1)
    /\ hReads = 0..(Len(h) - 1)

====
